---- MODULE Spec2Model ----
(***************************************************************************)
(* Model of the qqgjyx utility package: the dataset splitter               *)
(* (qqgjyx/data/split.py), the range validator (qqgjyx/validator.py), the  *)
(* seeding helper (qqgjyx/helper.py) and the QQ facade (qqgjyx/qq.py),     *)
(* and of the release script deploy.py.                                    *)
(*                                                                         *)
(* Spec      : one caller using the facade, the validator and the seeding  *)
(*             helper, one whole call per action.                          *)
(* SpecSeed  : one caller seeding, directly and through the facade, with   *)
(*             seeds numpy accepts and one it rejects, between facade      *)
(*             splits.                                                     *)
(* SpecSplit : one caller using the splitter directly, between changes of  *)
(*             dataset and re-seedings, one whole call per action.         *)
(* SpecConc  : several callers whose calls of split and ensure_between are *)
(*             interleaved statement by statement.                         *)
(* SpecDeploy: one run of deploy.py, one action per step of main and per   *)
(*             shell command, for every combination of options.            *)
(***************************************************************************)
EXTENDS Integers, Sequences, FiniteSets, TLC

(***************************************************************************)
(* Bounds of the exploration.                                              *)
(***************************************************************************)
MaxN == 2         \* datasets have 0..MaxN elements
MaxSeed == 0      \* explicit seeds are 0..MaxSeed, plus the default seed
MaxVal == 1       \* validator operands range over -1..MaxVal and the tests' 10, 11
NumThreads == 2   \* concurrent callers of SpecConc

(***************************************************************************)
(* Values.                                                                 *)
(***************************************************************************)
\* Python's None, as the value of a call that returned nothing.
None == "None"

\* An optional argument or setting: <<v>> when given, <<>> when omitted.
Given(v) == <<v>>

Omitted == <<>>

Opt(S) == {Given(v) : v \in S} \cup {Omitted}

\* split.py:8 and qq.py:32: seed = 42
DefaultSeed == 42

\* split.py:8 and qq.py:32: val_ratio = 0.2.  A ratio is kept as the fraction
\* num/den it denotes.
DefaultRatio == [num |-> 1, den |-> 5]

\* validator.py:6: name = "value"
DefaultName == "value"

\* The val_ratio arguments explored: 0.0, 0.5, 1.0 and the default 0.2.
Ratios == {[num |-> 0, den |-> 1], [num |-> 1, den |-> 2],
           [num |-> 1, den |-> 1], DefaultRatio}

Seeds == (0..MaxSeed) \cup {DefaultSeed}

\* Small operands around 0, and the bound 10 and the value 11 of the tests.
Vals == ((-1)..MaxVal) \cup {10, 11}

Names == {"ratio"}

Threads == 1..NumThreads

\* A dataset of the given size (test_comprehensive.py MockDataset): an
\* ordered collection of `size` items; item i is stored at Python index i-1.
NewDataset(size) == [i \in 1..size |-> i]

Datasets == {NewDataset(n) : n \in 0..MaxN}

(***************************************************************************)
(* Outcome of a call: a returned value or a raised exception.              *)
(***************************************************************************)
Return(v) == [kind |-> "return", value |-> v, exc |-> "", msg |-> ""]

Raise(e, m) == [kind |-> "raise", value |-> None, exc |-> e, msg |-> m]

NoOutcome == [kind |-> "none", value |-> None, exc |-> "", msg |-> ""]

(***************************************************************************)
(* qqgjyx/data/split.py                                                    *)
(***************************************************************************)
\* The names bound in the namespace of module qqgjyx.data.split when split
\* runs: the imports of lines 3 and 5 and the definitions of lines 8, 35, 38.
\* `import torch` is not among them.
split_module_globals ==
    {"Tuple", "Dataset", "random_split", "split", "__all__", "train_val_split"}

\* Name resolution of a global name inside split (no builtin is called torch).
NameBound(name) == name \in split_module_globals

\* split.py:26  int(len(train_set) * (1 - val_ratio)).  For the ratios of
\* Ratios and lengths up to a dozen the double-precision product truncates
\* to the truncation of the exact product.
train_size(n, val_ratio) == (n * (val_ratio.den - val_ratio.num)) \div val_ratio.den

\* torch.randperm(n, generator=g) for a generator seeded with `seed`: some
\* fixed permutation of 0..n-1 that depends on n and seed only.
randperm(n, seed) == [i \in 1..n |-> (i - 1 + seed) % n]

\* A torch Subset: a back-reference to the dataset and a list of indices.
Subset(ds, indices) == [dataset |-> ds, indices |-> indices]

\* split.py:29-32  random_split(train_set, [a, b], generator) and the return.
random_split(train_set, lengths, seed) ==
    LET n == Len(train_set)
        perm == randperm(n, seed)
    IN IF lengths[1] + lengths[2] # n
       THEN Raise("ValueError",
                  "Sum of input lengths does not equal the length of the input dataset!")
       ELSE Return(<<Subset(train_set, SubSeq(perm, 1, lengths[1])),
                     Subset(train_set, SubSeq(perm, lengths[1] + 1, n))>>)

\* split.py:26-32  the outcome of split(train_set, val_ratio, seed).
\* Line 28 evaluates the global name torch; it is unbound, so the call
\* raises NameError there.
split(train_set, val_ratio, seed) ==
    LET train_set_size == train_size(Len(train_set), val_ratio)
        val_set_size == Len(train_set) - train_set_size
    IN IF ~NameBound("torch")
       THEN Raise("NameError", "name 'torch' is not defined")
       ELSE random_split(train_set, <<train_set_size, val_set_size>>, seed)

\* split.py:8  the parameters val_ratio and seed after the defaults are
\* filled in; each argument is Given(v) or Omitted.
split_params(val_ratio, seed) ==
    <<IF val_ratio = Omitted THEN DefaultRatio ELSE val_ratio[1],
      IF seed = Omitted THEN DefaultSeed ELSE seed[1]>>

\* Variant: split seeds the process-wide torch generator (torch.manual_seed)
\* instead of a private one.
split_rng_effect_global(globals, seed) == [globals EXCEPT !.torch_cpu = Given(seed)]

\* The process-wide random-number-generator state after a call of split that
\* started with the state `globals`: split.py:26-32 writes none of it.
split_rng_effect(globals, seed) == globals

(***************************************************************************)
(* qqgjyx/validator.py                                                     *)
(***************************************************************************)
Digit(d) == <<"0", "1", "2", "3", "4", "5", "6", "7", "8", "9">>[d + 1]

RECURSIVE nat_str(_)
nat_str(n) == IF n < 10 THEN Digit(n) ELSE nat_str(n \div 10) \o Digit(n % 10)

\* The f-string conversion {x} of an int: str(x).
int_str(x) == IF x < 0 THEN "-" \o nat_str(-x) ELSE nat_str(x)

\* Variant: inverted bounds are put in order before the comparison.
between_sorted(value, low, high) ==
    (IF low <= high THEN low ELSE high) <= value
        /\ value <= (IF low <= high THEN high ELSE low)

\* Variant: the bounds are exclusive.
between_exclusive(value, low, high) == low < value /\ value < high

\* validator.py:7  the chained comparison low <= value <= high.
between(value, low, high) == low <= value /\ value <= high

\* Variant: the two bounds are reported in the wrong order.
range_message_swapped(name, low, high, value) ==
    name \o " must be between " \o int_str(high) \o " and " \o int_str(low)
         \o ", got " \o int_str(value)

\* validator.py:8  f"{name} must be between {low} and {high}, got {value}"
range_message(name, low, high, value) ==
    name \o " must be between " \o int_str(low) \o " and " \o int_str(high)
         \o ", got " \o int_str(value)

\* Variant: the label passed by the caller is ignored.
ensure_between_name_ignored(name) == DefaultName

\* validator.py:6  the parameter name after its default is filled in.
ensure_between_name(name) == IF name = Omitted THEN DefaultName ELSE name[1]

\* validator.py:6-9  the outcome of ensure_between(value, low, high, name).
ensure_between(value, low, high, name) ==
    IF ~between(value, low, high)
    THEN Raise("ValueError", range_message(name, low, high, value))
    ELSE Return(value)

(***************************************************************************)
(* qqgjyx/helper.py                                                        *)
(***************************************************************************)
\* The process-wide generator state before any seeding.
UnseededRng ==
    [torch_cpu |-> Omitted, torch_cuda |-> Omitted, numpy |-> Omitted,
     pl |-> Omitted, cudnn_deterministic |-> FALSE, cudnn_benchmark |-> FALSE]

\* Variant: the numpy generator is left out.
seed_rng_no_numpy(seed_value) ==
    [torch_cpu |-> Given(seed_value), torch_cuda |-> Given(seed_value),
     numpy |-> Omitted, pl |-> Given(seed_value),
     cudnn_deterministic |-> TRUE, cudnn_benchmark |-> FALSE]

\* helper.py:54-64  the generator state seed(seed_value) leaves behind when
\* every statement runs.
seed_rng(seed_value) ==
    [torch_cpu |-> Given(seed_value), torch_cuda |-> Given(seed_value),
     numpy |-> Given(seed_value), pl |-> Given(seed_value),
     cudnn_deterministic |-> TRUE, cudnn_benchmark |-> FALSE]

\* helper.py:58  np.random.seed(seed_value) takes seeds 0..2**32 - 1 and
\* raises ValueError for any other; the upper limit lies beyond the seeds
\* explored.
numpy_seed_ok(seed_value) == 0 <= seed_value

\* helper.py:54-65  the generator state after seed(seed_value) started in
\* state `globals`: when numpy rejects the seed at line 58, only the torch
\* seeds of lines 54 and 56 have been set.
seed_effect(globals, seed_value) ==
    IF numpy_seed_ok(seed_value)
    THEN seed_rng(seed_value)
    ELSE [globals EXCEPT !.torch_cpu = Given(seed_value),
                         !.torch_cuda = Given(seed_value)]

\* helper.py:45-65  the outcome of seed(seed_value).
helper_seed(seed_value) ==
    IF numpy_seed_ok(seed_value)
    THEN Return(seed_value)
    ELSE Raise("ValueError", "Seed must be between 0 and 2**32 - 1")

(***************************************************************************)
(* qqgjyx/qq.py                                                            *)
(***************************************************************************)
\* qq.py:20  QQ.seed's parameter value after its default.
QQ_seed_params(value) == IF value = Omitted THEN DefaultSeed ELSE value[1]

\* qq.py:23  the argument of the call seed(value).
QQ_seed_forward(value) == <<value>>

\* qq.py:32  QQ.split's parameters val_ratio and seed after its defaults.
QQ_split_params(val_ratio, seed) ==
    <<IF val_ratio = Omitted THEN DefaultRatio ELSE val_ratio[1],
      IF seed = Omitted THEN DefaultSeed ELSE seed[1]>>

\* Variant: the facade forwards the dataset and the ratio but not the seed.
QQ_split_forward_noseed(ds, val_ratio, seed) == <<ds, val_ratio, DefaultSeed>>

\* qq.py:35  the positional arguments of the call split(dataset, val_ratio, seed).
QQ_split_forward(ds, val_ratio, seed) == <<ds, val_ratio, seed>>

\* qq.py:35  `return split(...)`: what QQ.split hands back for the outcome of
\* the inner call.
QQ_split_return(inner) == inner

(***************************************************************************)
(* deploy.py: version strings.  A string is kept as the sequence of its    *)
(* characters.                                                             *)
(***************************************************************************)
DigitChars == {"0", "1", "2", "3", "4", "5", "6", "7", "8", "9"}

\* The versions explored: "0.1.2", "0.1.9", "1.0.0" and the pre-release "0.2a".
V012 == <<"0", ".", "1", ".", "2">>

V019 == <<"0", ".", "1", ".", "9">>

V100 == <<"1", ".", "0", ".", "0">>

V02a == <<"0", ".", "2", "a">>

\* s.split('.')
RECURSIVE str_split_dot(_)
str_split_dot(s) ==
    IF \A i \in 1..Len(s) : s[i] # "."
    THEN <<s>>
    ELSE LET i == CHOOSE k \in 1..Len(s) :
                      s[k] = "." /\ \A j \in 1..(k - 1) : s[j] # "."
         IN <<SubSeq(s, 1, i - 1)>> \o str_split_dot(SubSeq(s, i + 1, Len(s)))

\* '.'.join(parts)
RECURSIVE str_join_dot(_)
str_join_dot(parts) ==
    IF Len(parts) = 0 THEN <<>>
    ELSE IF Len(parts) = 1 THEN parts[1]
    ELSE parts[1] \o <<".">> \o str_join_dot(Tail(parts))

\* Whether int(s) accepts the string: the decimal digit strings (signs,
\* blanks and underscores do not occur in the versions explored).
int_accepts(s) == Len(s) > 0 /\ \A i \in 1..Len(s) : s[i] \in DigitChars

\* int(s) for a decimal digit string.
RECURSIVE int_parse(_)
int_parse(s) ==
    IF Len(s) = 0 THEN 0
    ELSE 10 * int_parse(SubSeq(s, 1, Len(s) - 1))
            + (CHOOSE d \in 0..9 : Digit(d) = s[Len(s)])

\* str(n) for n >= 0, as a sequence of characters.
RECURSIVE str_chars(_)
str_chars(n) == IF n < 10 THEN <<Digit(n)>> ELSE str_chars(n \div 10) \o <<Digit(n % 10)>>

\* Variant: the first component is incremented instead of the last.
auto_increment_first(version) ==
    LET parts == str_split_dot(version)
    IN str_join_dot([parts EXCEPT ![1] = str_chars(int_parse(parts[1]) + 1)])

\* deploy.py:196-198  parts = current_version.split('.');
\* parts[-1] = str(int(parts[-1]) + 1); new_version = '.'.join(parts)
auto_increment(version) ==
    LET parts == str_split_dot(version)
    IN str_join_dot([parts EXCEPT ![Len(parts)] =
                        str_chars(int_parse(parts[Len(parts)]) + 1)])

\* deploy.py:197  int(parts[-1]) raises ValueError unless the last component
\* is an integer literal.
auto_increment_fails(version) ==
    LET parts == str_split_dot(version) IN ~int_accepts(parts[Len(parts)])

\* deploy.py:192  `if args.version:` -- given and not the empty string.
version_given(args) == args.version # Omitted /\ args.version[1] # <<>>

(***************************************************************************)
(* deploy.py: control flow of main and run_command.                        *)
(***************************************************************************)
\* Variant: the dry-run option does not stop main before update_version.
main_after_no_dry_run(step, args) ==
    CASE step = "determine" -> "update_version"
      [] step = "update_version" ->
            IF ~args.skip_tests THEN "run_tests" ELSE "build_package"
      [] step = "run_tests" -> "build_package"
      [] step = "build_package" -> "validate_package"
      [] step = "validate_package" ->
            IF ~args.skip_upload THEN "upload_package" ELSE "git_commit_and_tag"
      [] step = "upload_package" -> "git_commit_and_tag"
      [] step = "git_commit_and_tag" -> "finish"

\* Variant: the skip options are not consulted.
main_after_no_skip(step, args) ==
    CASE step = "determine" -> IF args.dry_run THEN "dry_run" ELSE "update_version"
      [] step = "update_version" -> "run_tests"
      [] step = "run_tests" -> "build_package"
      [] step = "build_package" -> "validate_package"
      [] step = "validate_package" -> "upload_package"
      [] step = "upload_package" -> "git_commit_and_tag"
      [] step = "git_commit_and_tag" -> "finish"

\* Variant: the upload is made before the package is validated.
main_after_upload_early(step, args) ==
    CASE step = "determine" -> IF args.dry_run THEN "dry_run" ELSE "update_version"
      [] step = "update_version" ->
            IF ~args.skip_tests THEN "run_tests" ELSE "build_package"
      [] step = "run_tests" -> "build_package"
      [] step = "build_package" ->
            IF ~args.skip_upload THEN "upload_package" ELSE "validate_package"
      [] step = "upload_package" -> "validate_package"
      [] step = "validate_package" -> "git_commit_and_tag"
      [] step = "git_commit_and_tag" -> "finish"

\* deploy.py:202-234  the step main runs after `step` has returned.
main_after(step, args) ==
    CASE step = "determine" -> IF args.dry_run THEN "dry_run" ELSE "update_version"
      [] step = "update_version" ->
            IF ~args.skip_tests THEN "run_tests" ELSE "build_package"
      [] step = "run_tests" -> "build_package"
      [] step = "build_package" -> "validate_package"
      [] step = "validate_package" ->
            IF ~args.skip_upload THEN "upload_package" ELSE "git_commit_and_tag"
      [] step = "upload_package" -> "git_commit_and_tag"
      [] step = "git_commit_and_tag" -> "finish"

\* Variant: run_command hands the failure back to its caller.
run_command_exits_never(check, rc) == FALSE

\* deploy.py:36-41  run_command ends the script with sys.exit(1) when the
\* command exits non-zero and check is true (subprocess.run raises
\* CalledProcessError only when check is true).
run_command_exits(check, rc) == check /\ rc # 0

\* deploy.py:89-93, 106-110, 119-123, 132-136  the step functions that test
\* result.returncode after their last command.
tests_returncode(fn) ==
    fn \in {"run_tests", "build_package", "validate_package", "upload_package"}

\* deploy.py:167  response.lower()
str_lower(response) == IF response = "Y" THEN "y" ELSE response

(***************************************************************************)
(* State.                                                                  *)
(***************************************************************************)
VARIABLES
    dataset,   \* the caller's current dataset
    rng,       \* process-wide generator state (torch, numpy, lightning)
    last,      \* the last completed top-level call: operation, arguments, outcome
    memo,      \* the first completed call of split, kept for comparison
    calls,     \* argument tuples of the invocations of split or seed made by the last call
    pc,        \* SpecConc: per caller, the statement it is about to run
    frame,     \* SpecConc: per caller, the local variables of its call
    result,    \* SpecConc: per caller, the outcome of its finished call
    overlap,   \* SpecConc: per caller, whether its call ran while another was running
    dargs,            \* deploy.py: the parsed command-line options
    dpc,              \* deploy.py: the step main is about to run
    files,            \* deploy.py: the version strings in __init__.py and pyproject.toml
    current_version,  \* deploy.py: main's local current_version
    new_version,      \* deploy.py: main's local new_version
    executed,         \* deploy.py: the step functions entered, in order
    completed,        \* deploy.py: the step functions that returned, in order
    commands,         \* deploy.py: the shell commands run, with their exit statuses
    exit_code         \* deploy.py: the exit status of the script once it has ended

vars == <<dataset, rng, last, memo, calls, pc, frame, result, overlap,
          dargs, dpc, files, current_version, new_version, executed, completed,
          commands, exit_code>>

deployVars == <<dargs, dpc, files, current_version, new_version, executed,
                completed, commands, exit_code>>

libVars == <<dataset, rng, last, memo, calls, pc, frame, result, overlap>>

seqVars == <<last, memo, calls>>

concVars == <<pc, frame, result, overlap>>

NoCall == [op |-> "none", args |-> <<>>, outcome |-> NoOutcome]

\* The local variables of a call; fields a call does not use keep these values.
EmptyFrame ==
    [op |-> "none", train_set |-> <<>>, val_ratio |-> DefaultRatio, seed |-> 0,
     train_set_size |-> 0, val_set_size |-> 0,
     value |-> 0, low |-> 0, high |-> 0, name |-> DefaultName]

\* The release script has not been started.
DeployNotStarted ==
    /\ dargs = [version |-> Omitted, message |-> Omitted, skip_tests |-> FALSE,
                skip_upload |-> FALSE, dry_run |-> FALSE]
    /\ dpc = "not_started"
    /\ files = [init |-> Omitted, pyproject |-> <<>>]
    /\ current_version = Omitted
    /\ new_version = Omitted
    /\ executed = <<>>
    /\ completed = <<>>
    /\ commands = <<>>
    /\ exit_code = Omitted

Init ==
    /\ DeployNotStarted
    /\ dataset \in Datasets
    /\ rng = UnseededRng
    /\ last = NoCall
    /\ memo = NoCall
    /\ calls = <<>>
    /\ pc = [t \in Threads |-> "idle"]
    /\ frame = [t \in Threads |-> EmptyFrame]
    /\ result = [t \in Threads |-> NoOutcome]
    /\ overlap = [t \in Threads |-> FALSE]

(***************************************************************************)
(* Spec: whole calls, one after another.                                   *)
(***************************************************************************)
\* The caller builds a new dataset (test_comprehensive.py MockDataset).
MockDataset(size) ==
    /\ dataset' = NewDataset(size)
    /\ UNCHANGED <<rng, seqVars, concVars, deployVars>>

\* helper.py:45-65  seed(seed_value)
Call_seed(seed_value) ==
    /\ rng' = seed_effect(rng, seed_value)
    /\ last' = [op |-> "seed", args |-> <<seed_value>>, outcome |-> helper_seed(seed_value)]
    /\ calls' = <<>>
    /\ UNCHANGED <<dataset, memo, concVars, deployVars>>

\* qq.py:19-23  QQ.seed(value), value possibly omitted
Call_QQ_seed(value) ==
    LET a == QQ_seed_forward(QQ_seed_params(value))
    IN /\ calls' = <<a>>
       /\ rng' = seed_effect(rng, a[1])
       /\ last' = [op |-> "QQ.seed", args |-> <<value>>, outcome |-> helper_seed(a[1])]
       /\ UNCHANGED <<dataset, memo, concVars, deployVars>>

\* split.py:8-32  split(dataset, val_ratio, seed), arguments possibly omitted
Call_split(val_ratio, seed) ==
    LET p == split_params(val_ratio, seed)
        call == [op |-> "split", args |-> <<dataset, p[1], p[2]>>,
                 outcome |-> split(dataset, p[1], p[2])]
    IN /\ last' = call
       /\ memo' = IF memo.op = "none" THEN call ELSE memo
       /\ calls' = <<call.args>>
       /\ rng' = split_rng_effect(rng, p[2])
       /\ UNCHANGED <<dataset, concVars, deployVars>>

\* qq.py:31-35  QQ.split(dataset, val_ratio, seed), arguments possibly omitted
Call_QQ_split(val_ratio, seed) ==
    LET q == QQ_split_params(val_ratio, seed)
        a == QQ_split_forward(dataset, q[1], q[2])
        p == split_params(Given(a[2]), Given(a[3]))
    IN /\ calls' = <<a>>
       /\ last' = [op |-> "QQ.split", args |-> <<dataset, val_ratio, seed>>,
                   outcome |-> QQ_split_return(split(a[1], p[1], p[2]))]
       /\ rng' = split_rng_effect(rng, p[2])
       /\ UNCHANGED <<dataset, memo, concVars, deployVars>>

\* validator.py:6-9  ensure_between(value, low, high, name), name possibly omitted
Call_ensure_between(value, low, high, name) ==
    /\ last' = [op |-> "ensure_between", args |-> <<value, low, high, name>>,
                outcome |-> ensure_between(value, low, high, ensure_between_name(name))]
    /\ calls' = <<>>
    /\ UNCHANGED <<dataset, rng, memo, concVars, deployVars>>

Call_split_any ==
    \E val_ratio \in Opt(Ratios), sd \in Opt(Seeds) : Call_split(val_ratio, sd)

Call_QQ_split_any ==
    \E val_ratio \in Opt(Ratios), sd \in Opt(Seeds) : Call_QQ_split(val_ratio, sd)

Call_ensure_between_any ==
    \E value \in Vals, low \in Vals, high \in Vals, name \in Opt(Names) :
        Call_ensure_between(value, low, high, name)

\* test_comprehensive.py:244-251  the calls of test_ensure_between_invalid
\* and their in-range neighbour, under the label "custom".
Call_ensure_between_custom ==
    \E value \in {-1, 5, 11} : Call_ensure_between(value, 0, 10, Given("custom"))

Next ==
    \/ \E size \in 0..MaxN : MockDataset(size)
    \/ \E seed_value \in Seeds : Call_seed(seed_value)
    \/ Call_QQ_split_any
    \/ Call_ensure_between_any
    \/ Call_ensure_between_custom

Spec == Init /\ [][Next]_vars

\* The seeds passed to seed and QQ.seed: those of Seeds, the 123 of the
\* tests, and a negative one.
SeedArgs == Seeds \cup {123, -1}

NextSeed ==
    \/ \E size \in 0..MaxN : MockDataset(size)
    \/ Call_QQ_split_any
    \/ \E seed_value \in SeedArgs : Call_seed(seed_value)
    \/ \E value \in Opt(SeedArgs) : Call_QQ_seed(value)

SpecSeed == Init /\ [][NextSeed]_vars

NextSplit ==
    \/ \E size \in 0..MaxN : MockDataset(size)
    \/ \E seed_value \in Seeds : Call_seed(seed_value)
    \/ Call_split_any

SpecSplit == Init /\ [][NextSplit]_vars

(***************************************************************************)
(* SpecConc: calls of split and ensure_between by several callers,         *)
(* interleaved statement by statement.  Every call has its own frame of    *)
(* local variables; the callers share the dataset and the generator state. *)
(***************************************************************************)
\* The arguments explored by the concurrent callers.
ConcRatios == {Omitted, Given([num |-> 1, den |-> 2])}

ConcVals == (-1)..MaxVal

\* Variant: the parameters and locals live in one module-level frame that
\* all calls share.
Local_shared(t) == frame[1]

\* The frame in which caller t's running call reads its parameters and
\* local variables: the call's own.
Local(t) == frame[t]

Running(t) == pc[t] \notin {"idle", "done"}

\* Caller t takes a step: note whether some other call is under way.
Step(t, nextpc) ==
    /\ pc' = [pc EXCEPT ![t] = nextpc]
    /\ overlap' = [overlap EXCEPT ![t] = @ \/ \E u \in Threads \ {t} : Running(u)]

\* split.py:8  caller t enters split(dataset, val_ratio, seed)
Begin_split(t, val_ratio, seed) ==
    LET p == split_params(val_ratio, seed)
    IN /\ ~Running(t)
       /\ frame' = [frame EXCEPT ![t] = [EmptyFrame EXCEPT !.op = "split",
                        !.train_set = dataset, !.val_ratio = p[1], !.seed = p[2]]]
       /\ result' = [result EXCEPT ![t] = NoOutcome]
       /\ pc' = [pc EXCEPT ![t] = "split_26"]
       /\ overlap' = [overlap EXCEPT ![t] = \E u \in Threads \ {t} : Running(u)]
       /\ UNCHANGED <<deployVars, dataset, rng, seqVars>>

\* split.py:26  train_set_size = int(len(train_set) * (1 - val_ratio))
split_26(t) ==
    /\ pc[t] = "split_26"
    /\ frame' = [frame EXCEPT ![t].train_set_size =
                    train_size(Len(Local(t).train_set), Local(t).val_ratio)]
    /\ Step(t, "split_27")
    /\ UNCHANGED <<deployVars, dataset, rng, seqVars, result>>

\* split.py:27  val_set_size = len(train_set) - train_set_size
split_27(t) ==
    /\ pc[t] = "split_27"
    /\ frame' = [frame EXCEPT ![t].val_set_size =
                    Len(Local(t).train_set) - Local(t).train_set_size]
    /\ Step(t, "split_28")
    /\ UNCHANGED <<deployVars, dataset, rng, seqVars, result>>

\* split.py:28-32  generator = torch.Generator()...; random_split; return.
\* The name torch is unbound, so the call ends at line 28 with NameError.
split_28(t) ==
    /\ pc[t] = "split_28"
    /\ result' = [result EXCEPT ![t] =
                    IF ~NameBound("torch")
                    THEN Raise("NameError", "name 'torch' is not defined")
                    ELSE random_split(Local(t).train_set,
                                      <<Local(t).train_set_size, Local(t).val_set_size>>,
                                      Local(t).seed)]
    /\ rng' = split_rng_effect(rng, Local(t).seed)
    /\ Step(t, "done")
    /\ UNCHANGED <<deployVars, dataset, seqVars, frame>>

\* validator.py:6  caller t enters ensure_between(value, low, high, name)
Begin_ensure_between(t, value, low, high, name) ==
    /\ ~Running(t)
    /\ frame' = [frame EXCEPT ![t] = [EmptyFrame EXCEPT !.op = "ensure_between",
                     !.value = value, !.low = low, !.high = high,
                     !.name = ensure_between_name(name)]]
    /\ result' = [result EXCEPT ![t] = NoOutcome]
    /\ pc' = [pc EXCEPT ![t] = "eb_7"]
    /\ overlap' = [overlap EXCEPT ![t] = \E u \in Threads \ {t} : Running(u)]
    /\ UNCHANGED <<deployVars, dataset, rng, seqVars>>

\* validator.py:7  if not (low <= value <= high):
eb_7(t) ==
    /\ pc[t] = "eb_7"
    /\ Step(t, IF ~between(Local(t).value, Local(t).low, Local(t).high)
               THEN "eb_8" ELSE "eb_9")
    /\ UNCHANGED <<deployVars, dataset, rng, seqVars, frame, result>>

\* validator.py:8  raise ValueError(f"...")
eb_8(t) ==
    /\ pc[t] = "eb_8"
    /\ result' = [result EXCEPT ![t] =
                    Raise("ValueError", range_message(Local(t).name, Local(t).low,
                                                      Local(t).high, Local(t).value))]
    /\ Step(t, "done")
    /\ UNCHANGED <<deployVars, dataset, rng, seqVars, frame>>

\* validator.py:9  return value
eb_9(t) ==
    /\ pc[t] = "eb_9"
    /\ result' = [result EXCEPT ![t] = Return(Local(t).value)]
    /\ Step(t, "done")
    /\ UNCHANGED <<deployVars, dataset, rng, seqVars, frame>>

NextConc ==
    \/ \E t \in Threads, val_ratio \in ConcRatios : Begin_split(t, val_ratio, Omitted)
    \/ \E t \in Threads : split_26(t)
    \/ \E t \in Threads : split_27(t)
    \/ \E t \in Threads : split_28(t)
    \/ \E t \in Threads, value \in ConcVals :
           Begin_ensure_between(t, value, 0, 0, Omitted)
    \/ \E t \in Threads : eb_7(t)
    \/ \E t \in Threads : eb_8(t)
    \/ \E t \in Threads : eb_9(t)

SpecConc == Init /\ [][NextConc]_vars

(***************************************************************************)
(* SpecDeploy: one run of deploy.py.                                       *)
(***************************************************************************)
\* The option combinations explored: --version absent, empty or "1.0.0";
\* --message absent or present; the three flags.
DeployArgs ==
    [version : Opt({<<>>, V100}), message : Opt({"Add new feature"}),
     skip_tests : BOOLEAN, skip_upload : BOOLEAN, dry_run : BOOLEAN]

\* The files before the run: __init__.py with one of three versions or with
\* no __version__ line; pyproject.toml with one of two versions.
DeployFiles == [init : Opt({V012, V019, V02a}), pyproject : {V012, V019}]

InitDeploy ==
    /\ dataset = NewDataset(0)
    /\ rng = UnseededRng
    /\ last = NoCall
    /\ memo = NoCall
    /\ calls = <<>>
    /\ pc = [t \in Threads |-> "idle"]
    /\ frame = [t \in Threads |-> EmptyFrame]
    /\ result = [t \in Threads |-> NoOutcome]
    /\ overlap = [t \in Threads |-> FALSE]
    /\ dargs \in DeployArgs
    /\ dpc = "check_git_status"
    /\ files \in DeployFiles
    /\ current_version = Omitted
    /\ new_version = Omitted
    /\ executed = <<>>
    /\ completed = <<>>
    /\ commands = <<>>
    /\ exit_code = Omitted

\* sys.exit(code), an uncaught exception (status 1) or the end of main
\* (status 0).
Exit(code) == dpc' = "exited" /\ exit_code' = Given(code)

\* A run_command call: the command with its argument, check flag and the
\* exit status it came back with.
Command(name, arg, check, rc) == [name |-> name, arg |-> arg, check |-> check, rc |-> rc]

\* deploy.py:22-42 inside a step function fn: run_command(cmd) with
\* check=True.  `enters` marks fn's first command, `returns` its last;
\* nextpc is where the script goes on when the command has succeeded.
Shell(fn, name, arg, rc, enters, returns, nextpc) ==
    /\ commands' = Append(commands, Command(name, arg, TRUE, rc))
    /\ executed' = IF enters THEN Append(executed, fn) ELSE executed
    /\ IF run_command_exits(TRUE, rc)
       THEN Exit(1) /\ completed' = completed
       ELSE IF returns /\ tests_returncode(fn) /\ rc # 0
       THEN Exit(1) /\ completed' = completed
       ELSE /\ dpc' = nextpc
            /\ exit_code' = exit_code
            /\ completed' = IF returns THEN Append(completed, fn) ELSE completed
    /\ UNCHANGED <<libVars, dargs, files, current_version, new_version>>

\* deploy.py:160-168, 185  check_git_status()
D_check_git_status ==
    /\ dpc = "check_git_status"
    /\ \E rc \in {0, 1}, dirty \in BOOLEAN, response \in {"y", "Y", "n"} :
          /\ commands' = Append(commands, Command("git status --porcelain", <<>>, FALSE, rc))
          /\ IF run_command_exits(FALSE, rc)
             THEN Exit(1)
             ELSE IF dirty /\ str_lower(response) # "y"
             THEN Exit(0)
             ELSE dpc' = "get_current_version" /\ exit_code' = exit_code
    /\ UNCHANGED <<libVars, dargs, files, current_version, new_version, executed, completed>>

\* deploy.py:45-53, 188  current_version = get_current_version()
D_get_current_version ==
    /\ dpc = "get_current_version"
    /\ IF files.init = Omitted
       THEN Exit(1) /\ current_version' = current_version
       ELSE /\ current_version' = files.init
            /\ dpc' = "determine"
            /\ exit_code' = exit_code
    /\ UNCHANGED <<libVars, dargs, files, new_version, executed, completed, commands>>

\* deploy.py:192-200  determine new_version
D_determine ==
    /\ dpc = "determine"
    /\ IF version_given(dargs)
       THEN /\ new_version' = dargs.version
            /\ dpc' = main_after("determine", dargs)
            /\ exit_code' = exit_code
       ELSE IF auto_increment_fails(current_version[1])
       THEN Exit(1) /\ new_version' = new_version
       ELSE /\ new_version' = Given(auto_increment(current_version[1]))
            /\ dpc' = main_after("determine", dargs)
            /\ exit_code' = exit_code
    /\ UNCHANGED <<libVars, dargs, files, current_version, executed, completed, commands>>

\* deploy.py:202-210  the dry run: print the plan and return
D_dry_run ==
    /\ dpc = "dry_run"
    /\ Exit(0)
    /\ UNCHANGED <<libVars, dargs, files, current_version, new_version, executed,
                   completed, commands>>

\* deploy.py:56-76, 213  update_version(new_version)
D_update_version ==
    /\ dpc = "update_version"
    /\ files' = [init |-> new_version, pyproject |-> new_version[1]]
    /\ executed' = Append(executed, "update_version")
    /\ completed' = Append(completed, "update_version")
    /\ dpc' = main_after("update_version", dargs)
    /\ UNCHANGED <<libVars, dargs, current_version, new_version, commands, exit_code>>

\* deploy.py:84  run_tests: pip install -e .
D_run_tests_install ==
    /\ dpc = "run_tests"
    /\ \E rc \in {0, 1} :
          Shell("run_tests", "conda run -n pkg-dev python -m pip install -e .", <<>>,
                rc, TRUE, FALSE, "run_tests_2")

\* deploy.py:87-93  run_tests: pytest, then the test of result.returncode
D_run_tests_pytest ==
    /\ dpc = "run_tests_2"
    /\ \E rc \in {0, 1} :
          Shell("run_tests", "conda run -n pkg-dev python -m pytest test/ -v", <<>>,
                rc, FALSE, TRUE, main_after("run_tests", dargs))

\* deploy.py:101  build_package: rm -rf dist build
D_build_clean ==
    /\ dpc = "build_package"
    /\ \E rc \in {0, 1} :
          Shell("build_package", "rm -rf dist build", <<>>, rc, TRUE, FALSE,
                "build_package_2")

\* deploy.py:104-110  build_package: python -m build, then the test of returncode
D_build_build ==
    /\ dpc = "build_package_2"
    /\ \E rc \in {0, 1} :
          Shell("build_package", "conda run -n pkg-dev python -m build", <<>>,
                rc, FALSE, TRUE, main_after("build_package", dargs))

\* deploy.py:113-123  validate_package()
D_validate_package ==
    /\ dpc = "validate_package"
    /\ \E rc \in {0, 1} :
          Shell("validate_package", "conda run -n pkg-dev twine check dist/*", <<>>,
                rc, TRUE, TRUE, main_after("validate_package", dargs))

\* deploy.py:126-136  upload_package()
D_upload_package ==
    /\ dpc = "upload_package"
    /\ \E rc \in {0, 1} :
          Shell("upload_package", "conda run -n pkg-dev twine upload dist/*", <<>>,
                rc, TRUE, TRUE, main_after("upload_package", dargs))

\* deploy.py:144  git_commit_and_tag: git add -A
D_git_add ==
    /\ dpc = "git_commit_and_tag"
    /\ \E rc \in {0, 1} :
          Shell("git_commit_and_tag", "git add -A", <<>>, rc, TRUE, FALSE, "git_commit")

\* deploy.py:147-148  git commit -m "Release {version}[: {message}]"
D_git_commit ==
    /\ dpc = "git_commit"
    /\ \E rc \in {0, 1} :
          Shell("git_commit_and_tag", "git commit -m",
                <<new_version[1],
                  IF dargs.message # Omitted /\ dargs.message[1] # ""
                  THEN dargs.message ELSE Omitted>>,
                rc, FALSE, FALSE, "git_tag")

\* deploy.py:151  git tag -a v{version} -m "qqgjyx {version}"
D_git_tag ==
    /\ dpc = "git_tag"
    /\ \E rc \in {0, 1} :
          Shell("git_commit_and_tag", "git tag -a", <<"v">> \o new_version[1],
                rc, FALSE, FALSE, "git_push")

\* deploy.py:154  git push
D_git_push ==
    /\ dpc = "git_push"
    /\ \E rc \in {0, 1} :
          Shell("git_commit_and_tag", "git push", <<>>, rc, FALSE, FALSE, "git_push_tags")

\* deploy.py:155-157  git push --tags, and the return of git_commit_and_tag
D_git_push_tags ==
    /\ dpc = "git_push_tags"
    /\ \E rc \in {0, 1} :
          Shell("git_commit_and_tag", "git push --tags", <<>>, rc, FALSE, TRUE,
                main_after("git_commit_and_tag", dargs))

\* deploy.py:236-239  the closing messages and the end of main
D_finish ==
    /\ dpc = "finish"
    /\ Exit(0)
    /\ UNCHANGED <<libVars, dargs, files, current_version, new_version, executed,
                   completed, commands>>

NextDeploy ==
    \/ D_check_git_status
    \/ D_get_current_version
    \/ D_determine
    \/ D_dry_run
    \/ D_update_version
    \/ D_run_tests_install
    \/ D_run_tests_pytest
    \/ D_build_clean
    \/ D_build_build
    \/ D_validate_package
    \/ D_upload_package
    \/ D_git_add
    \/ D_git_commit
    \/ D_git_tag
    \/ D_git_push
    \/ D_git_push_tags
    \/ D_finish

SpecDeploy == InitDeploy /\ [][NextDeploy]_vars

(***************************************************************************)
(* Properties.                                                             *)
(***************************************************************************)
Range(sq) == {sq[i] : i \in 1..Len(sq)}

\* The last call was split(train_set, val_ratio, seed); its parts.
LastIsSplit == last.op = "split"

LastN == Len(last.args[1])

LastTrain == last.outcome.value[1].indices

LastVal == last.outcome.value[2].indices

\* C1: split returns a train view and a validation view whose index sets are
\* disjoint and whose union is exactly 0..N-1, every index exactly once.
C1_DisjointCover ==
    LastIsSplit =>
        /\ last.outcome.kind = "return"
        /\ Range(LastTrain) \cap Range(LastVal) = {}
        /\ Range(LastTrain) \cup Range(LastVal) = 0..(LastN - 1)
        /\ Len(LastTrain) + Len(LastVal) = LastN

\* C2: split returns a train view of length floor(N * (1 - val_ratio)) and a
\* validation view of length N minus that, so the lengths sum to N.
C2_Lengths ==
    LastIsSplit =>
        /\ last.outcome.kind = "return"
        /\ Len(LastTrain) = (LastN * (last.args[2].den - last.args[2].num)) \div last.args[2].den
        /\ Len(LastVal) = LastN - Len(LastTrain)

\* C3: two calls of split with the same dataset, val_ratio and seed return
\* identical train index sets and identical validation index sets, whatever
\* was called in between.
C3_Deterministic ==
    (LastIsSplit /\ memo.op = "split" /\ memo.args = last.args) =>
        /\ memo.outcome.kind = "return"
        /\ last.outcome.kind = "return"
        /\ Range(LastTrain) = Range(memo.outcome.value[1].indices)
        /\ Range(LastVal) = Range(memo.outcome.value[2].indices)

\* C4: with val_ratio = 0 split returns an empty validation view and a train
\* view of length N; with val_ratio = 1 an empty train view and a validation
\* view of length N.
C4_Extremes ==
    /\ (LastIsSplit /\ last.args[2].num = 0) =>
           (last.outcome.kind = "return" /\ Len(LastVal) = 0 /\ Len(LastTrain) = LastN)
    /\ (LastIsSplit /\ last.args[2].num = last.args[2].den) =>
           (last.outcome.kind = "return" /\ Len(LastTrain) = 0 /\ Len(LastVal) = LastN)

\* C5: for a dataset of length 0 split returns two empty views and raises
\* no error.
C5_EmptyDataset ==
    (LastIsSplit /\ LastN = 0) =>
        (last.outcome.kind = "return" /\ LastTrain = <<>> /\ LastVal = <<>>)

\* The last call was ensure_between(value, low, high, name); its parts.
LastIsEnsure == last.op = "ensure_between"

LastValue == last.args[1]

LastLow == last.args[2]

LastHigh == last.args[3]

LastName == IF last.args[4] = Omitted THEN "value" ELSE last.args[4][1]

ExpectedMessage ==
    LastName \o " must be between " \o ToString(LastLow) \o " and "
             \o ToString(LastHigh) \o ", got " \o ToString(LastValue)

\* C7 as stated: for value < low or value > high, ensure_between returns no
\* value and fails with a RangeError whose message is exactly
\* "<name> must be between <low> and <high>, got <value>".
C7_RangeError ==
    (LastIsEnsure /\ (LastValue < LastLow \/ LastValue > LastHigh)) =>
        /\ last.outcome.kind = "raise"
        /\ last.outcome.exc = "RangeError"
        /\ last.outcome.msg = ExpectedMessage

\* C7 amended: for value < low or value > high, ensure_between returns no
\* value and fails with a ValueError whose message is exactly
\* "<name> must be between <low> and <high>, got <value>", name defaulting
\* to "value".
C7_ValueError ==
    (LastIsEnsure /\ (LastValue < LastLow \/ LastValue > LastHigh)) =>
        /\ last.outcome.kind = "raise"
        /\ last.outcome.value = None
        /\ last.outcome.exc = "ValueError"
        /\ last.outcome.msg = ExpectedMessage

\* ensure_between(11, 0, 10, "ratio") has failed.
C7_Witness ==
    /\ LastIsEnsure
    /\ last.args = <<11, 0, 10, Given("ratio")>>
    /\ last.outcome.kind = "raise"
    /\ last.outcome.msg = "ratio must be between 0 and 10, got 11"

\* C8: a call of split leaves the dataset (contents and length) and every
\* process-wide generator state set by seed() unchanged.
C8_NoSideEffect ==
    [][Call_split_any => (dataset' = dataset /\ rng' = rng)]_vars

\* split has run on a non-empty dataset after seed() had set the generators.
C8_Witness ==
    /\ LastIsSplit
    /\ last.args[1] = dataset
    /\ Len(dataset) > 0
    /\ rng.torch_cpu # Omitted
    /\ rng.numpy # Omitted

\* The outcome of caller t's call had it run alone: the whole call applied
\* to the arguments it was entered with.
Alone(t) ==
    IF frame[t].op = "split"
    THEN split(frame[t].train_set, frame[t].val_ratio, frame[t].seed)
    ELSE ensure_between(frame[t].value, frame[t].low, frame[t].high, frame[t].name)

\* C9: when calls of split and ensure_between run concurrently, arbitrarily
\* interleaved, each finished call has the outcome it has when run alone.
C9_Isolation == \A t \in Threads : pc[t] = "done" => result[t] = Alone(t)

\* A split and a failing ensure_between have both finished, each having run
\* while another call was under way.
C9_Witness ==
    \E t \in Threads, u \in Threads :
        /\ t # u
        /\ pc[t] = "done" /\ frame[t].op = "split" /\ overlap[t]
        /\ Len(frame[t].train_set) > 0
        /\ pc[u] = "done" /\ frame[u].op = "ensure_between" /\ overlap[u]
        /\ result[u].kind = "raise"

\* C10: QQ.split(dataset, val_ratio, seed), with val_ratio = 0.2 and
\* seed = 42 when omitted, calls the data split exactly once with those
\* three arguments and hands back its result or error unchanged.
C10_Delegation ==
    last.op = "QQ.split" =>
        LET r == IF last.args[2] = Omitted THEN [num |-> 1, den |-> 5] ELSE last.args[2][1]
            s == IF last.args[3] = Omitted THEN 42 ELSE last.args[3][1]
        IN /\ Len(calls) = 1
           /\ calls[1] = <<last.args[1], r, s>>
           /\ last.outcome = split(last.args[1], r, s)

\* QQ.split has run on a non-empty dataset with an explicit seed and the
\* default ratio.
C10_Witness ==
    /\ last.op = "QQ.split"
    /\ Len(last.args[1]) > 0
    /\ last.args[2] = Omitted
    /\ last.args[3] = Given(0)
    /\ last.outcome.kind # "none"

LastIsSeed == last.op \in {"seed", "QQ.seed"}

LastSeed ==
    IF last.op = "seed" THEN last.args[1]
    ELSE IF last.args[1] = Omitted THEN 42 ELSE last.args[1][1]

SeededWith(v) ==
    /\ rng.torch_cpu = Given(v)
    /\ rng.torch_cuda = Given(v)
    /\ rng.numpy = Given(v)
    /\ rng.pl = Given(v)

\* C14 as stated: for every integer v, seed(v) sets the torch CPU, torch
\* CUDA, numpy and lightning seeds to v and returns v; QQ.seed(v) calls it
\* exactly once with v (42 when omitted) and returns the same value.
C14_SeedAll ==
    LastIsSeed =>
        /\ SeededWith(LastSeed)
        /\ last.outcome = Return(LastSeed)
        /\ last.op = "QQ.seed" => calls = <<<<LastSeed>>>>

\* C14 amended: the same for every integer v from 0 to 2**32 - 1, the seeds
\* numpy accepts.
C14_SeedAllAccepted ==
    (LastIsSeed /\ 0 <= LastSeed) =>
        /\ SeededWith(LastSeed)
        /\ last.outcome = Return(LastSeed)
        /\ last.op = "QQ.seed" => calls = <<<<LastSeed>>>>

\* QQ.seed() has run with its default after an earlier seeding with 0.
C14_Witness ==
    /\ last.op = "QQ.seed"
    /\ last.args = <<Omitted>>
    /\ SeededWith(42)
    /\ last.outcome = Return(42)

\* C17: when low > high, ensure_between fails for every value, and the
\* message reports the bounds in the given, inverted order.
C17_InvertedBounds ==
    (LastIsEnsure /\ LastLow > LastHigh) =>
        /\ last.outcome.kind = "raise"
        /\ last.outcome.msg =
               LastName \o " must be between " \o ToString(LastLow) \o " and "
                        \o ToString(LastHigh) \o ", got " \o ToString(LastValue)

\* ensure_between(1, 10, 0) has failed: the value lies between the inverted
\* bounds.
C17_Witness ==
    /\ LastIsEnsure
    /\ last.args = <<1, 10, 0, Omitted>>
    /\ last.outcome.kind = "raise"
    /\ last.outcome.msg = "value must be between 10 and 0, got 1"

(***************************************************************************)
(* Properties of deploy.py.                                                *)
(***************************************************************************)
StepFunctions ==
    {"update_version", "run_tests", "build_package", "validate_package",
     "upload_package", "git_commit_and_tag"}

\* C12: in a --dry-run run none of update_version, run_tests, build_package,
\* validate_package, upload_package, git_commit_and_tag is ever executed,
\* and the version strings in the two files stay as they were.
C12_DryRunFrame ==
    /\ [](dargs.dry_run => (Range(executed) \cap StepFunctions = {}
                            /\ \A i \in 1..Len(commands) : ~commands[i].check))
    /\ [][dargs.dry_run => files' = files]_vars

\* A dry run has printed its plan for a determined target and ended.
C12_Witness ==
    /\ dargs.dry_run
    /\ dpc = "exited"
    /\ exit_code = Given(0)
    /\ new_version # Omitted
    /\ files.init = current_version

\* The run went through main to its end: it was neither abandoned at the
\* uncommitted-changes prompt nor stopped by a failure.
RanToEnd == dpc = "exited" /\ exit_code = Given(0) /\ current_version # Omitted

\* The steps a full run makes under the given options, in order.
ExpectedSteps(args) ==
    <<"update_version">>
        \o (IF args.skip_tests THEN <<>> ELSE <<"run_tests">>)
        \o <<"build_package", "validate_package">>
        \o (IF args.skip_upload THEN <<>> ELSE <<"upload_package">>)
        \o <<"git_commit_and_tag">>

\* C13: without --dry-run, --skip-tests means run_tests is never executed
\* and --skip-upload means upload_package is never executed; the other
\* steps are executed, in order, when no step fails.
C13_SkipOptions ==
    ~dargs.dry_run =>
        /\ dargs.skip_tests => "run_tests" \notin Range(executed)
        /\ dargs.skip_upload => "upload_package" \notin Range(executed)
        /\ RanToEnd => (executed = ExpectedSteps(dargs) /\ completed = executed)

\* A run with both skip options has gone through to its end.
C13_Witness ==
    /\ ~dargs.dry_run /\ dargs.skip_tests /\ dargs.skip_upload
    /\ RanToEnd
    /\ executed = <<"update_version", "build_package", "validate_package",
                    "git_commit_and_tag">>

\* Every command with check=True run before the i-th one succeeded.
AllSucceededBefore(i) ==
    \A j \in 1..(i - 1) : commands[j].check => commands[j].rc = 0

\* C15: upload_package starts only after update_version, the tests (unless
\* skipped), the build and the validation have completed; git commit, tag
\* and push start only after the upload has completed or was skipped; no
\* upload or git command runs after a failed earlier command.
C15_Order ==
    /\ "upload_package" \in Range(executed) =>
           /\ {"update_version", "build_package", "validate_package"} \subseteq Range(completed)
           /\ ~dargs.skip_tests => "run_tests" \in Range(completed)
    /\ "git_commit_and_tag" \in Range(executed) =>
           /\ {"update_version", "build_package", "validate_package"} \subseteq Range(completed)
           /\ ~dargs.skip_tests => "run_tests" \in Range(completed)
           /\ dargs.skip_upload \/ "upload_package" \in Range(completed)
    /\ \A i \in 1..Len(commands) :
           commands[i].name \in {"conda run -n pkg-dev twine upload dist/*", "git add -A",
                                 "git commit -m", "git tag -a", "git push",
                                 "git push --tags"}
               => AllSucceededBefore(i)

\* With tests and upload enabled, the tag command has run after a completed
\* upload.
C15_Witness ==
    /\ ~dargs.skip_tests /\ ~dargs.skip_upload
    /\ "upload_package" \in Range(completed)
    /\ \E i \in 1..Len(commands) : commands[i].name = "git tag -a"

\* C16: when a command run with check=True exits non-zero, the script ends
\* at once with exit status 1, no later command or step is run, and both
\* files keep the new version written by update_version.
C16_FailFast ==
    \A i \in 1..Len(commands) :
        (commands[i].check /\ commands[i].rc # 0) =>
            /\ i = Len(commands)
            /\ dpc = "exited"
            /\ exit_code = Given(1)
            /\ executed[Len(executed)] \notin Range(completed)
            /\ files.init = new_version
            /\ files.pyproject = new_version[1]

\* git tag has failed after the upload: the script has ended with status 1
\* and the files hold the new version, not the one read at the start.
C16_Witness ==
    /\ dpc = "exited"
    /\ exit_code = Given(1)
    /\ Len(commands) > 0
    /\ commands[Len(commands)].name = "git tag -a"
    /\ commands[Len(commands)].rc # 0
    /\ "upload_package" \in Range(completed)
    /\ files.init # current_version

\* new is cur with its last dot-separated component increased by exactly 1
\* and the earlier components unchanged.
LastComponentPlusOne(cur, new) ==
    LET pc_ == str_split_dot(cur)
        pn_ == str_split_dot(new)
    IN /\ Len(pn_) = Len(pc_)
       /\ \A i \in 1..(Len(pc_) - 1) : pn_[i] = pc_[i]
       /\ int_accepts(pn_[Len(pn_)])
       /\ int_parse(pn_[Len(pn_)]) = int_parse(pc_[Len(pc_)]) + 1

\* The target is the current version with its last component increased by 1,
\* also on the two examples 0.1.2 -> 0.1.3 and 0.1.9 -> 0.1.10.
TargetIncremented ==
    /\ LastComponentPlusOne(current_version[1], new_version[1])
    /\ current_version = Given(V012) =>
           new_version = Given(<<"0", ".", "1", ".", "3">>)
    /\ current_version = Given(V019) =>
           new_version = Given(<<"0", ".", "1", ".", "1", "0">>)

\* The target is what update_version has written to both files and what the
\* git tag command names.
TargetUsed ==
    /\ "update_version" \in Range(completed) =>
           (files.init = new_version /\ files.pyproject = new_version[1])
    /\ \A i \in 1..Len(commands) :
           commands[i].name = "git tag -a" =>
               commands[i].arg = <<"v">> \o new_version[1]

\* C18 as stated: the target version is the --version argument whenever one
\* is given, otherwise the current version with its last component
\* increased by 1; it is written to both files and used in the git tag.
C18_GivenVersion ==
    new_version # Omitted =>
        /\ IF dargs.version # Omitted
           THEN new_version = dargs.version
           ELSE TargetIncremented
        /\ TargetUsed

\* C18 amended: the target version is the --version argument when it is a
\* non-empty string; when --version is absent or empty the target is the
\* current version with its last component increased by 1 and the earlier
\* components unchanged, and a current version whose last component is not
\* an integer ends the script with status 1 before any target exists and
\* before anything is written; the target is what is written to both files
\* and what the git tag names.
C18_TargetVersion ==
    /\ new_version # Omitted =>
           /\ IF dargs.version \notin {Omitted, Given(<<>>)}
              THEN new_version = dargs.version
              ELSE TargetIncremented
           /\ TargetUsed
    /\ (dpc = "exited" /\ current_version # Omitted /\ new_version = Omitted) =>
           /\ dargs.version \in {Omitted, Given(<<>>)}
           /\ ~int_accepts(str_split_dot(current_version[1])
                               [Len(str_split_dot(current_version[1]))])
           /\ exit_code = Given(1)
           /\ files.init = current_version
           /\ commands = <<commands[1]>>

\* Without --version, from 0.1.9, the tag v0.1.10 has been created and both
\* files hold 0.1.10.
C18_Witness ==
    /\ dargs.version = Omitted
    /\ current_version = Given(V019)
    /\ files.init = Given(<<"0", ".", "1", ".", "1", "0">>)
    /\ files.pyproject = <<"0", ".", "1", ".", "1", "0">>
    /\ \E i \in 1..Len(commands) :
           /\ commands[i].name = "git tag -a"
           /\ commands[i].rc = 0
           /\ commands[i].arg = <<"v", "0", ".", "1", ".", "1", "0">>

====
